---- MODULE Spec2Model ----
(***************************************************************************)
(* A model of django_pg.models.fields.array.ArrayField: the field that     *)
(* maps a PostgreSQL array column to a Python list by composing the        *)
(* sub-field stored in self._of.                                           *)
(*                                                                         *)
(* Python values are records tagged by their type (field t).  A call of a  *)
(* method yields an outcome: a returned value or a raised exception.       *)
(* Methods of a sub-field that is not itself an ArrayField are             *)
(* uninterpreted: they return a value that records the method, the         *)
(* sub-field and the argument.                                             *)
(***************************************************************************)
EXTENDS Integers, Sequences, FiniteSets, TLC

\* Longest list, tuple or string among the operands.
MaxLen == 2
\* Deepest nesting of ArrayField inside ArrayField.
MaxDepth == 2

---------------------------------------------------------------------------
(* Python values *)

NoneV == [t |-> "None"]
IntV(n) == [t |-> "int", i |-> n]
\* A float is counted in halves (halves = 3 is 1.5); inf and nan are special.
FloatV(h) == [t |-> "float", special |-> "finite", halves |-> h]
FloatInf == [t |-> "float", special |-> "inf", halves |-> 0]
FloatNan == [t |-> "float", special |-> "nan", halves |-> 0]
StrV(s) == [t |-> "str", chars |-> s]
ListV(xs) == [t |-> "list", items |-> xs]
TupleV(xs) == [t |-> "tuple", items |-> xs]
DictV(ks) == [t |-> "dict", keys |-> ks]
BoolV(b) == [t |-> "bool", b |-> b]
\* The name of a lookup, a style object and a database connection.
LookupV(k) == [t |-> "lookup", name |-> k]
StyleV(n) == [t |-> "style", name |-> n]
ConnectionV == [t |-> "connection"]
\* A class object, and an instance of a class built with args and kwargs.
TypeV(c) == [t |-> "type", cls |-> c]
InstanceV(c, a, k) == [t |-> "instance", cls |-> c, args |-> a, kwargs |-> k]
\* An SQL string, kept as the sequence of its pieces.
SqlV(s) == [t |-> "sql", text |-> s]
\* The value an uninterpreted sub-field method returns.
RetV(fn, by, args) == [t |-> "ret", fn |-> fn, by |-> by, args |-> args]

Return(v) == [kind |-> "return", value |-> v]
Raise(e, m) == [kind |-> "raise", exc |-> e, msg |-> m]
Returned(o) == o.kind = "return"
Raised(o) == o.kind = "raise"

\* `not value` is the negation of this.
Truthy(v) ==
  CASE v.t = "None" -> FALSE
    [] v.t = "bool" -> v.b
    [] v.t = "int" -> v.i # 0
    [] v.t = "float" -> ~(v.special = "finite" /\ v.halves = 0)
    [] v.t = "str" -> v.chars # <<>>
    [] v.t \in {"list", "tuple"} -> v.items # <<>>
    [] v.t = "dict" -> v.keys # {}
    [] OTHER -> TRUE

\* list(value): the items of an iterable, in order.
Iterate(v) ==
  CASE v.t \in {"list", "tuple"} -> Return(v.items)
    [] v.t = "str" -> Return([i \in 1..Len(v.chars) |-> StrV(<<v.chars[i]>>)])
    [] OTHER -> Raise("TypeError", "object is not iterable")

IsList(v) == v.t = "list"
IsListOrTuple(v) == v.t \in {"list", "tuple"}
IsTuple(v) == v.t = "tuple"
IsType(v) == v.t = "type"

Digits == {"4", "7"}
DigitVal(c) == IF c = "4" THEN 4 ELSE 7

RECURSIVE StripLeft(_)
StripLeft(s) == IF s # <<>> /\ Head(s) = " " THEN StripLeft(Tail(s)) ELSE s
RECURSIVE StripRight(_)
StripRight(s) ==
  IF s # <<>> /\ s[Len(s)] = " " THEN StripRight(SubSeq(s, 1, Len(s) - 1)) ELSE s
RECURSIVE DigitsValue(_)
DigitsValue(s) ==
  IF s = <<>> THEN 0
  ELSE 10 * DigitsValue(SubSeq(s, 1, Len(s) - 1)) + DigitVal(s[Len(s)])
AllDigits(s) == s # <<>> /\ \A i \in 1..Len(s) : s[i] \in Digits

\* int(value), the built-in conversion.
int(v) ==
  CASE v.t = "int" -> Return(v)
    [] v.t = "bool" -> Return(IntV(IF v.b THEN 1 ELSE 0))
    [] v.t = "float" ->
         IF v.special = "inf"
           THEN Raise("OverflowError", "cannot convert float infinity to integer")
         ELSE IF v.special = "nan"
           THEN Raise("ValueError", "cannot convert float NaN to integer")
         ELSE Return(IntV(IF v.halves >= 0 THEN v.halves \div 2
                                           ELSE -((-v.halves) \div 2)))
    [] v.t = "str" ->
         LET s == StripRight(StripLeft(v.chars))
             neg == s # <<>> /\ Head(s) = "-"
             body == IF neg THEN Tail(s) ELSE s
         IN IF AllDigits(body)
              THEN Return(IntV(IF neg THEN -DigitsValue(body) ELSE DigitsValue(body)))
              ELSE Raise("ValueError", "invalid literal for int()")
    [] OTHER -> Raise("TypeError", "int() argument must be a string or a number")

---------------------------------------------------------------------------
(* Classes of sub-fields *)

ArrayFieldName == "ArrayField"
ArrayMethods ==
  {"create_type", "create_type_sql", "db_type", "get_db_lookup_expression",
   "get_db_prep_lookup", "get_prep_lookup", "get_prep_value",
   "register_composite", "south_field_triple", "to_python"}
FieldMethods == {"db_type", "get_prep_lookup", "get_prep_value", "to_python"}

\* The attributes the instances of a class expose.
ClassAttrs(c) ==
  CASE c = ArrayFieldName -> ArrayMethods
    [] c = "IntegerField" -> FieldMethods
    [] c = "CompositeField" ->
         FieldMethods \cup {"create_type", "create_type_sql", "register_composite"}
    [] c = "DdlField" -> FieldMethods \cup {"create_type_sql"}
    [] OTHER -> {}

\* hasattr(obj, name)
hasattr(obj, name) == obj.t = "instance" /\ name \in ClassAttrs(obj.cls)

\* What db_type returns for a sub-field that is not an ArrayField.
ColumnType(c) ==
  CASE c = "IntegerField" -> "integer"
    [] c = "CompositeField" -> "composite_t"
    [] OTHER -> "ddl_t"

---------------------------------------------------------------------------
(* ArrayField.  A method yields [out, calls, fx]: its outcome, the calls it *)
(* made on self._of and on the superclass, in order, and what those calls   *)
(* did to the connection.                                                   *)

Result(o, c, f) == [out |-> o, calls |-> c, fx |-> f]
CallOf(fn, args) == [on |-> "_of", fn |-> fn, args |-> args]
CallSuper(fn, args) == [on |-> "super", fn |-> fn, args |-> args]

RECURSIVE Invoke(_, _, _)
RECURSIVE db_type(_, _)
RECURSIVE get_prep_value(_, _)
RECURSIVE to_python(_, _)
RECURSIVE get_prep_lookup(_, _, _)
RECURSIVE create_type(_, _)
RECURSIVE create_type_sql(_, _, _, _)
RECURSIVE register_composite(_, _, _)

\* [self._of.fn(*pre, i) for i in items]: stops at the first item that raises.
Comprehension(of, fn, pre, items) ==
  LET rs == [i \in 1..Len(items) |-> Invoke(of, fn, pre \o <<items[i]>>)]
      bad == {i \in 1..Len(items) : Raised(rs[i].out)}
      stop == IF bad = {} THEN Len(items)
              ELSE CHOOSE i \in bad : \A j \in bad : i <= j
  IN Result(IF bad = {}
              THEN Return(ListV([i \in 1..Len(items) |-> rs[i].out.value]))
              ELSE rs[stop].out,
            [i \in 1..stop |-> CallOf(fn, pre \o <<items[i]>>)],
            UNION {rs[i].fx : i \in 1..stop})

\* db_type without the array suffix.
db_type_bare(self, connection) ==
  LET db_subfield == Invoke(self.of, "db_type", <<connection>>)
  IN Result(db_subfield.out, <<CallOf("db_type", <<connection>>)>>, db_subfield.fx)

db_type(self, connection) ==
  LET db_subfield == Invoke(self.of, "db_type", <<connection>>)
  IN Result(IF Raised(db_subfield.out) THEN db_subfield.out
            ELSE Return(SqlV(db_subfield.out.value.text \o <<"[]">>)),
            <<CallOf("db_type", <<connection>>)>>, db_subfield.fx)

create_type(self, connection) ==
  IF hasattr(self.of, "create_type")
    THEN LET r == Invoke(self.of, "create_type", <<connection>>)
         IN Result(r.out, <<CallOf("create_type", <<connection>>)>>, r.fx)
    ELSE Result(Return(NoneV), <<>>, {})

\* create_type_sql that forwards the default only_if_not_exists=False.
create_type_sql_default_flag(self, connection, style, only_if_not_exists) ==
  IF hasattr(self.of, "create_type_sql")
    THEN LET args == <<connection, style, BoolV(FALSE)>>
             r == Invoke(self.of, "create_type_sql", args)
         IN Result(r.out, <<CallOf("create_type_sql", args)>>, r.fx)
    ELSE Result(Return(SqlV(<<>>)), <<>>, {})

create_type_sql(self, connection, style, only_if_not_exists) ==
  IF hasattr(self.of, "create_type_sql")
    THEN LET args == <<connection, style, only_if_not_exists>>
             r == Invoke(self.of, "create_type_sql", args)
         IN Result(r.out, <<CallOf("create_type_sql", args)>>, r.fx)
    ELSE Result(Return(SqlV(<<>>)), <<>>, {})

register_composite(self, connection, globally) ==
  IF hasattr(self.of, "register_composite")
    THEN LET args == <<connection, globally>>
             r == Invoke(self.of, "register_composite", args)
         IN Result(r.out, <<CallOf("register_composite", args)>>, r.fx)
    ELSE Result(Return(NoneV), <<>>, {})

\* get_db_lookup_expression whose 'contains' ignores the shape of the operand.
get_db_lookup_expression_shapeless(self, lookup_type, value, connection) ==
  LET T == db_type(self, connection)
      cast(head) == Result(IF Raised(T.out) THEN T.out
                           ELSE Return(SqlV(<<head>> \o T.out.value.text)),
                           T.calls, T.fx)
  IN IF lookup_type = "exact" THEN cast("{field} = {value}::")
     ELSE IF lookup_type = "contains" THEN cast("{field} @> {value}::")
     ELSE IF lookup_type = "len"
       THEN Result(Return(SqlV(<<"{value} = ARRAY_LENGTH({field}, 1)">>)), <<>>, {})
     ELSE Result(Return(NoneV), <<>>, {})

get_db_lookup_expression(self, lookup_type, value, connection) ==
  LET T == db_type(self, connection)
      cast(head) == Result(IF Raised(T.out) THEN T.out
                           ELSE Return(SqlV(<<head>> \o T.out.value.text)),
                           T.calls, T.fx)
  IN IF lookup_type = "exact" THEN cast("{field} = {value}::")
     ELSE IF lookup_type = "contains"
       THEN IF IsListOrTuple(value) THEN cast("{field} @> {value}::")
            ELSE Result(Return(SqlV(<<"{value} = ANY({field})">>)), <<>>, {})
     ELSE IF lookup_type = "len"
       THEN Result(Return(SqlV(<<"{value} = ARRAY_LENGTH({field}, 1)">>)), <<>>, {})
     ELSE Result(Return(NoneV), <<>>, {})

\* get_prep_value that hands a falsy value back as it is.
get_prep_value_keeps_falsy(self, value) ==
  IF ~Truthy(value) THEN Result(Return(value), <<>>, {})
  ELSE LET items == Iterate(value)
       IN IF Raised(items) THEN Result(items, <<>>, {})
          ELSE Comprehension(self.of, "get_prep_value", <<>>, items.value)

get_prep_value(self, value) ==
  IF ~Truthy(value) THEN Result(Return(ListV(<<>>)), <<>>, {})
  ELSE LET items == Iterate(value)
       IN IF Raised(items) THEN Result(items, <<>>, {})
          ELSE Comprehension(self.of, "get_prep_value", <<>>, items.value)

\* models.Field.get_prep_lookup, as the superclass call of get_prep_lookup
\* sees it: 'contains' hands the value back, 'exact' runs get_prep_value.
Field_get_prep_lookup(self, lookup_type, value) ==
  IF lookup_type = "exact" THEN get_prep_value(self, value)
  ELSE Result(Return(value), <<>>, {})

\* get_prep_lookup that coerces the items before it rejects the lookup type.
get_prep_lookup_late_check(self, lookup_type, value) ==
  IF lookup_type = "len"
    THEN LET n == int(value)
         IN Result(IF Raised(n) /\ n.exc = "ValueError"
                     THEN Raise("TypeError", "__len only supports integers.")
                     ELSE n,
                   <<>>, {})
  ELSE LET co == IF IsListOrTuple(value)
                   THEN Comprehension(self.of, "get_prep_lookup",
                                      <<LookupV("exact")>>, value.items)
                   ELSE Result(Return(value), <<>>, {})
       IN IF Raised(co.out) THEN co
          ELSE IF lookup_type \notin {"exact", "contains"}
            THEN Result(Raise("TypeError", "Unsupported lookup type"), co.calls, co.fx)
          ELSE LET su == Field_get_prep_lookup(self, lookup_type, co.out.value)
               IN Result(su.out,
                         co.calls \o <<CallSuper("get_prep_lookup",
                                         <<LookupV(lookup_type), co.out.value>>)>>,
                         co.fx \cup su.fx)

\* get_prep_lookup that hands the element the outer lookup type.
get_prep_lookup_outer_type(self, lookup_type, value) ==
  IF lookup_type = "len"
    THEN LET n == int(value)
         IN Result(IF Raised(n) /\ n.exc = "ValueError"
                     THEN Raise("TypeError", "__len only supports integers.")
                     ELSE n,
                   <<>>, {})
  ELSE IF lookup_type \notin {"exact", "contains"}
    THEN Result(Raise("TypeError", "Unsupported lookup type"), <<>>, {})
  ELSE LET co == IF IsListOrTuple(value)
                   THEN Comprehension(self.of, "get_prep_lookup",
                                      <<LookupV(lookup_type)>>, value.items)
                   ELSE Result(Return(value), <<>>, {})
       IN IF Raised(co.out) THEN co
          ELSE LET su == Field_get_prep_lookup(self, lookup_type, co.out.value)
               IN Result(su.out,
                         co.calls \o <<CallSuper("get_prep_lookup",
                                         <<LookupV(lookup_type), co.out.value>>)>>,
                         co.fx \cup su.fx)

get_prep_lookup(self, lookup_type, value) ==
  IF lookup_type = "len"
    THEN LET n == int(value)
         IN Result(IF Raised(n) /\ n.exc = "ValueError"
                     THEN Raise("TypeError", "__len only supports integers.")
                     ELSE n,
                   <<>>, {})
  ELSE IF lookup_type \notin {"exact", "contains"}
    THEN Result(Raise("TypeError", "Unsupported lookup type"), <<>>, {})
  ELSE LET co == IF IsListOrTuple(value)
                   THEN Comprehension(self.of, "get_prep_lookup",
                                      <<LookupV("exact")>>, value.items)
                   ELSE Result(Return(value), <<>>, {})
       IN IF Raised(co.out) THEN co
          ELSE LET su == Field_get_prep_lookup(self, lookup_type, co.out.value)
               IN Result(su.out,
                         co.calls \o <<CallSuper("get_prep_lookup",
                                         <<LookupV(lookup_type), co.out.value>>)>>,
                         co.fx \cup su.fx)

\* to_python that copies the list without the element's to_python.
to_python_unmapped(self, value) ==
  IF IsList(value) THEN Result(Return(ListV(value.items)), <<>>, {})
  ELSE Result(Return(NoneV), <<>>, {})

to_python(self, value) ==
  IF IsList(value) THEN Comprehension(self.of, "to_python", <<>>, value.items)
  ELSE Result(Return(NoneV), <<>>, {})

\* obj.fn(*args): an ArrayField runs the methods above, any other sub-field
\* is uninterpreted, and an object without the attribute raises.
Invoke(obj, fn, args) ==
  IF ~hasattr(obj, fn)
    THEN Result(Raise("AttributeError", fn), <<>>, {})
  ELSE IF obj.cls = ArrayFieldName
    THEN CASE fn = "db_type" -> db_type(obj, args[1])
           [] fn = "get_prep_value" -> get_prep_value(obj, args[1])
           [] fn = "to_python" -> to_python(obj, args[1])
           [] fn = "get_prep_lookup" -> get_prep_lookup(obj, args[1].name, args[2])
           [] fn = "create_type" -> create_type(obj, args[1])
           [] fn = "create_type_sql" -> create_type_sql(obj, args[1], args[2], args[3])
           [] fn = "register_composite" -> register_composite(obj, args[1], args[2])
  ELSE Result(Return(IF fn = "db_type" THEN SqlV(<<ColumnType(obj.cls)>>)
                                      ELSE RetV(fn, obj, args)),
              <<>>,
              IF fn \in {"create_type", "register_composite"}
                THEN {[fn |-> fn, by |-> obj, args |-> args]} ELSE {})

\* gf(name)(*args, **kwargs): South resolves the name to the class and calls it.
gf(name, args, kwargs) == InstanceV(name.chars[1], args.items, kwargs.keys)

\* __init__ that stores a class as it is given.
init_keeps_type(of, kwargs, south) ==
  LET resolved == IF IsTuple(of) /\ south
                    THEN gf(of.items[1], of.items[2], of.items[3]) ELSE of
      kw == [kwargs EXCEPT !.null = TRUE]
  IN [t |-> "instance", cls |-> ArrayFieldName, of |-> resolved, null |-> kw.null]

\* ArrayField.__init__(of, **kwargs) with the module's south_installed.
RECURSIVE init(_, _, _)
init(of, kwargs, south) ==
  LET resolved == IF IsTuple(of) /\ south
                    THEN gf(of.items[1], of.items[2], of.items[3]) ELSE of
      stored == IF IsType(resolved)
                  THEN IF resolved.cls = ArrayFieldName
                         THEN init(TypeV("IntegerField"), [null |-> FALSE], south)
                         ELSE InstanceV(resolved.cls, <<>>, {})
                  ELSE resolved
      kw == [kwargs EXCEPT !.null = TRUE]
  IN [t |-> "instance", cls |-> ArrayFieldName, of |-> stored, null |-> kw.null]

---------------------------------------------------------------------------
(* The inputs *)

Alphabet == {"4", "7", "-", "a", " "}
Strings == UNION {[1..k -> Alphabet] : k \in 0..MaxLen}
Items == {NoneV, IntV(3), ListV(<<IntV(3)>>), TupleV(<<>>)}
Seqs == UNION {[1..k -> Items] : k \in 0..MaxLen}
Scalars ==
  {NoneV, BoolV(TRUE), IntV(0), IntV(5), FloatV(-3), FloatV(0), FloatInf, FloatNan}
Values ==
  Scalars \cup {StrV(s) : s \in Strings}
          \cup {ListV(s) : s \in Seqs} \cup {TupleV(s) : s \in Seqs}

LookupTypes == {"exact", "contains", "len", "startswith", "in"}
Styles == {StyleV("no_style"), StyleV("color_style")}

\* What a caller may pass as `of`.
SubFieldClasses == {"IntegerField", "CompositeField", "DdlField"}
KwargSets == {{}, {"db_index"}}
Triple(c, k) == TupleV(<<StrV(<<c>>), ListV(<<>>), DictV(k)>>)
PlainOfs ==
  {InstanceV(c, <<>>, k) : c \in SubFieldClasses, k \in KwargSets}
    \cup {TypeV(c) : c \in SubFieldClasses \cup {"object", ArrayFieldName}}
    \cup {Triple(c, k) : c \in {"IntegerField", "CompositeField"}, k \in KwargSets}
    \cup {InstanceV("object", <<>>, {}), IntV(5), NoneV}
InnerOfs ==
  {TypeV("IntegerField"), InstanceV("CompositeField", <<>>, {}),
   Triple("IntegerField", {"db_index"}), IntV(5)}
RECURSIVE NestedOfs(_, _)
NestedOfs(d, south) ==
  IF d = 1 THEN InnerOfs
  ELSE {init(a, [null |-> FALSE], south) : a \in NestedOfs(d - 1, south)}
OfArgs(south) == PlainOfs \cup UNION {NestedOfs(d, south) : d \in 2..MaxDepth}

---------------------------------------------------------------------------
(* The state machine: one ArrayField, built once and then called. *)

VARIABLES south_installed, self, last, connection
vars == <<south_installed, self, last, connection>>

NoCall == [op |-> "none", args |-> <<>>, out |-> Return(NoneV), calls |-> <<>>]
Called(op, args, r) == [op |-> op, args |-> args, out |-> r.out, calls |-> r.calls]

Init ==
  /\ south_installed \in BOOLEAN
  /\ self = NoneV
  /\ last = NoCall
  /\ connection = {}

Built(field, args) ==
  /\ self' = field
  /\ last' = [op |-> "__init__", args |-> args, out |-> Return(NoneV), calls |-> <<>>]
  /\ UNCHANGED <<south_installed, connection>>

Construct ==
  /\ self = NoneV
  /\ \E of \in OfArgs(south_installed), null \in BOOLEAN :
       Built(init(of, [null |-> null], south_installed), <<of, BoolV(null)>>)

\* ArrayField(): `of` takes its default, models.IntegerField.
ConstructDefault ==
  /\ self = NoneV
  /\ Built(init(TypeV("IntegerField"), [null |-> FALSE], south_installed), <<>>)

Ready == self # NoneV /\ last = NoCall

Does(op, args, r) ==
  /\ last' = Called(op, args, r)
  /\ connection' = connection \cup r.fx
  /\ UNCHANGED <<south_installed, self>>

Call_db_type ==
  /\ Ready
  /\ Does("db_type", <<ConnectionV>>, db_type(self, ConnectionV))

Call_create_type ==
  /\ Ready
  /\ Does("create_type", <<ConnectionV>>, create_type(self, ConnectionV))

Call_create_type_sql ==
  /\ Ready
  /\ \E style \in Styles, only_if_not_exists \in BOOLEAN :
       Does("create_type_sql", <<ConnectionV, style, BoolV(only_if_not_exists)>>,
            create_type_sql(self, ConnectionV, style, BoolV(only_if_not_exists)))

Call_register_composite ==
  /\ Ready
  /\ \E globally \in BOOLEAN :
       Does("register_composite", <<ConnectionV, BoolV(globally)>>,
            register_composite(self, ConnectionV, BoolV(globally)))

Call_get_prep_value ==
  /\ Ready
  /\ \E value \in Values :
       Does("get_prep_value", <<value>>, get_prep_value(self, value))

Call_to_python ==
  /\ Ready
  /\ \E value \in Values :
       Does("to_python", <<value>>, to_python(self, value))

Call_get_db_lookup_expression ==
  /\ Ready
  /\ \E lookup_type \in LookupTypes, value \in Values :
       Does("get_db_lookup_expression", <<LookupV(lookup_type), value, ConnectionV>>,
            get_db_lookup_expression(self, lookup_type, value, ConnectionV))

Call_get_prep_lookup ==
  /\ Ready
  /\ \E lookup_type \in LookupTypes, value \in Values :
       Does("get_prep_lookup", <<LookupV(lookup_type), value>>,
            get_prep_lookup(self, lookup_type, value))

\* The caller takes the result: the field keeps nothing of a call.
Done ==
  /\ self # NoneV
  /\ last # NoCall
  /\ last' = NoCall
  /\ UNCHANGED <<south_installed, self, connection>>

Next ==
  \/ Construct
  \/ ConstructDefault
  \/ Call_db_type
  \/ Call_create_type
  \/ Call_create_type_sql
  \/ Call_register_composite
  \/ Call_get_prep_value
  \/ Call_to_python
  \/ Call_get_db_lookup_expression
  \/ Call_get_prep_lookup
  \/ Done

Spec == Init /\ [][Next]_vars

---------------------------------------------------------------------------
(* The properties *)

Arg(i) == last.args[i]
\* The element codec's own answer to a call.
Element(fn, args) == Invoke(self.of, fn, args).out
\* The minimum element-codec contract: sql_type, prepare, parse.
IsCodec(e) ==
  hasattr(e, "db_type") /\ hasattr(e, "get_prep_value") /\ hasattr(e, "to_python")
\* The class of the element, "" when the element is no instance of a class.
ClassOf(e) == IF e.t = "instance" THEN e.cls ELSE ""
IsSequenceValue(v) == v.t \in {"list", "tuple"}
HasItems(v) == v.t \in {"list", "tuple", "str"}
ItemsOf(v) ==
  IF v.t = "str" THEN [i \in 1..Len(v.chars) |-> StrV(<<v.chars[i]>>)] ELSE v.items
\* out is the list, as long as xs, of the element's fn(*pre, x) in the order
\* of xs; when the element raises on an item, so does the call.
MappedBy(fn, pre, xs, out) ==
  LET rs == [i \in 1..Len(xs) |-> Element(fn, pre \o <<xs[i]>>)]
  IN IF \A i \in 1..Len(xs) : Returned(rs[i])
       THEN /\ Returned(out)
            /\ IsList(out.value)
            /\ Len(out.value.items) = Len(xs)
            /\ \A i \in 1..Len(xs) : out.value.items[i] = rs[i].value
       ELSE Raised(out)

\* C1, as stated: for every input value, get_prep_value returns the empty list
\* when the value is falsy, and otherwise returns a list as long as the input
\* whose i-th item is the element's get_prep_value of the i-th input item.
C1_EveryInput ==
  (last.op = "get_prep_value" /\ IsCodec(self.of)) =>
    LET v == Arg(1)
    IN /\ ~Truthy(v) => last.out = Return(ListV(<<>>))
       /\ Truthy(v) =>
            IF HasItems(v) THEN MappedBy("get_prep_value", <<>>, ItemsOf(v), last.out)
            ELSE Returned(last.out) /\ IsList(last.out.value)

\* C1, amended: get_prep_value returns the empty list, never None, when the
\* value is falsy; when the value is truthy and iterable it returns a list as
\* long as the input whose i-th item is the element's get_prep_value of the
\* i-th input item, in the input's order; a truthy value that is not iterable
\* raises TypeError.
C1_PrepValue ==
  last.op = "get_prep_value" =>
    LET v == Arg(1)
    IN /\ ~Truthy(v) => last.out = Return(ListV(<<>>))
       /\ (Truthy(v) /\ HasItems(v)) =>
            MappedBy("get_prep_value", <<>>, ItemsOf(v), last.out)
       /\ (Truthy(v) /\ ~HasItems(v)) =>
            (Raised(last.out) /\ last.out.exc = "TypeError")

C1_Witness ==
  /\ last.op = "get_prep_value"
  /\ Arg(1) = ListV(<<IntV(3), IntV(3)>>)
  /\ ClassOf(self.of) = "IntegerField"
  /\ Returned(last.out)
  /\ Len(last.out.value.items) = 2

\* C2, as stated: for every raw value that is an ordered sequence (a list or a
\* tuple), to_python returns a list of the same length whose i-th item is the
\* element's to_python of the i-th raw item.
C2_EverySequence ==
  (last.op = "to_python" /\ IsCodec(self.of) /\ IsSequenceValue(Arg(1))) =>
    MappedBy("to_python", <<>>, Arg(1).items, last.out)

\* C2, amended: for every raw value that is a list, to_python returns a new
\* list of the same length whose i-th item is the element's to_python of the
\* i-th raw item, in the same order.
C2_ToPythonList ==
  (last.op = "to_python" /\ IsList(Arg(1))) =>
    MappedBy("to_python", <<>>, Arg(1).items, last.out)

C2_Witness ==
  /\ last.op = "to_python"
  /\ Arg(1) = ListV(<<IntV(3), NoneV>>)
  /\ ClassOf(self.of) = "IntegerField"
  /\ Returned(last.out)
  /\ last.out.value.items[2] = RetV("to_python", self.of, <<NoneV>>)

C4_DbType ==
  last.op = "db_type" =>
    LET sub == Element("db_type", <<ConnectionV>>)
    IN /\ Returned(sub) => last.out = Return(SqlV(sub.value.text \o <<"[]">>))
       /\ (ClassOf(self.of) = ArrayFieldName /\ ClassOf(self.of.of) = "IntegerField") =>
            last.out = Return(SqlV(<<"integer", "[]", "[]">>))

C4_Witness ==
  /\ last.op = "db_type"
  /\ ClassOf(self.of) = ArrayFieldName
  /\ ClassOf(self.of.of) = "IntegerField"
  /\ last.out = Return(SqlV(<<"integer", "[]", "[]">>))

\* C5: get_db_lookup_expression is decided by the lookup type and the shape of
\* the operand: 'exact' gives "{field} = {value}::T" with T the array's
\* db_type, 'contains' gives "{field} @> {value}::T" for a list or tuple and
\* "{value} = ANY({field})" for a scalar, 'len' gives
\* "{value} = ARRAY_LENGTH({field}, 1)", any other lookup type gives None.
C5_LookupExpression ==
  last.op = "get_db_lookup_expression" =>
    LET k == Arg(1).name
        v == Arg(2)
        T == db_type(self, ConnectionV).out
        cast(head) == Returned(T) => last.out = Return(SqlV(<<head>> \o T.value.text))
    IN /\ k = "exact" => cast("{field} = {value}::")
       /\ (k = "contains" /\ IsSequenceValue(v)) => cast("{field} @> {value}::")
       /\ (k = "contains" /\ ~IsSequenceValue(v)) =>
            last.out = Return(SqlV(<<"{value} = ANY({field})">>))
       /\ k = "len" => last.out = Return(SqlV(<<"{value} = ARRAY_LENGTH({field}, 1)">>))
       /\ k \notin {"exact", "contains", "len"} => last.out = Return(NoneV)

C5_Witness ==
  /\ last.op = "get_db_lookup_expression"
  /\ Arg(1).name = "contains"
  /\ IsTuple(Arg(2))
  /\ last.out = Return(SqlV(<<"{field} @> {value}::", "integer", "[]">>))

\* What can be converted to an integer: an integer, a boolean, a finite float,
\* a string that holds a decimal integer.
Convertible(v) ==
  \/ v.t \in {"int", "bool"}
  \/ v.t = "float" /\ v.special = "finite"
  \/ v.t = "str" /\ Returned(int(v))

\* C6: get_prep_lookup with 'len' returns the operand converted to an integer
\* whenever the operand is convertible to one, and fails with TypeError (the
\* code's InvalidLookupError) for every operand that is not; it never returns
\* a non-integer.
C6_LenIsInteger ==
  (last.op = "get_prep_lookup" /\ IsCodec(self.of) /\ Arg(1).name = "len") =>
    /\ Convertible(Arg(2)) => (Returned(last.out) /\ last.out.value.t = "int")
    /\ ~Convertible(Arg(2)) => (Raised(last.out) /\ last.out.exc = "TypeError")
    /\ Returned(last.out) => last.out.value.t = "int"

\* C7: get_prep_lookup fails with TypeError for every lookup type outside
\* {exact, contains, len}, whatever the operand, before it calls the element
\* on any item of the operand.
C7_UnsupportedLookup ==
  (last.op = "get_prep_lookup" /\ Arg(1).name \notin {"exact", "contains", "len"}) =>
    /\ Raised(last.out)
    /\ last.out.exc = "TypeError"
    /\ last.calls = <<>>

C7_Witness ==
  /\ last.op = "get_prep_lookup"
  /\ Arg(1).name = "startswith"
  /\ Arg(2) = ListV(<<IntV(3), NoneV>>)
  /\ IsCodec(self.of)
  /\ Raised(last.out)

\* What a call of a delegating method must have done: with the capability, one
\* call of the element's method with the caller's arguments, its outcome
\* handed back and its effect on the connection; without it, '' or None, no
\* call and the connection as it was.
Delegated(l, before, after) ==
  IF hasattr(self.of, l.op)
    THEN LET r == Invoke(self.of, l.op, l.args)
         IN /\ l.out = r.out
            /\ l.calls = <<CallOf(l.op, l.args)>>
            /\ after = before \cup r.fx
    ELSE /\ l.out = Return(IF l.op = "create_type_sql" THEN SqlV(<<>>) ELSE NoneV)
         /\ l.calls = <<>>
         /\ after = before

\* C8: create_type_sql, create_type and register_composite forward to the
\* element's method of the same name with the caller's arguments and return
\* its result when the element has it; when it has not, create_type_sql
\* returns '' and the other two return None, leave the connection alone and
\* raise nothing.
C8_Delegation ==
  [][last'.op \in {"create_type", "create_type_sql", "register_composite"} =>
       Delegated(last', connection, connection')]_vars

C8_Witness ==
  /\ last.op = "create_type_sql"
  /\ hasattr(self.of, "create_type_sql")
  /\ Arg(3) = BoolV(TRUE)
  /\ last.out = Return(RetV("create_type_sql", self.of, last.args))

ElementLookups(calls) ==
  SelectSeq(calls, LAMBDA c : c.on = "_of" /\ c.fn = "get_prep_lookup")
SuperCalls(calls) == SelectSeq(calls, LAMBDA c : c.on = "super")

\* C10: for 'exact' and 'contains', a list or tuple operand is handed to the
\* superclass as a list of the same length whose i-th item is the element's
\* get_prep_lookup('exact', item_i), in the original order, whichever of the
\* two the outer lookup type is; for a scalar operand the element's
\* get_prep_lookup is not called.
C10_ElementwiseExact ==
  (last.op = "get_prep_lookup" /\ Arg(1).name \in {"exact", "contains"}) =>
    LET v == Arg(2)
        xs == v.items
        rs == [i \in 1..Len(xs) |->
                 Element("get_prep_lookup", <<LookupV("exact"), xs[i]>>)]
    IN IF IsSequenceValue(v)
         THEN IF \A i \in 1..Len(xs) : Returned(rs[i])
                THEN /\ ElementLookups(last.calls) =
                          [i \in 1..Len(xs) |->
                             CallOf("get_prep_lookup", <<LookupV("exact"), xs[i]>>)]
                     /\ SuperCalls(last.calls) =
                          <<CallSuper("get_prep_lookup",
                                      <<Arg(1), ListV([i \in 1..Len(xs) |-> rs[i].value])>>)>>
                ELSE Raised(last.out) /\ SuperCalls(last.calls) = <<>>
         ELSE /\ ElementLookups(last.calls) = <<>>
              /\ SuperCalls(last.calls) =
                   <<CallSuper("get_prep_lookup", <<Arg(1), v>>)>>

C10_Witness ==
  /\ last.op = "get_prep_lookup"
  /\ Arg(1).name = "contains"
  /\ Arg(2) = TupleV(<<IntV(3), NoneV>>)
  /\ ClassOf(self.of) = "IntegerField"
  /\ last.out = Return(ListV(<<
       RetV("get_prep_lookup", self.of, <<LookupV("exact"), IntV(3)>>),
       RetV("get_prep_lookup", self.of, <<LookupV("exact"), NoneV>>)>>))

====
